---- MODULE Spec2Model ----
(***************************************************************************)
(* Model of bindings/ruby/sfml-window/window/Window.cpp: the Ruby binding  *)
(* of sf::Window.  Ruby values are VALUE words, the native windows are     *)
(* heap cells, the Ruby side objects wrapping them are Data objects, and   *)
(* every binding function is one action that records what it returned and  *)
(* which native calls it made.                                             *)
(***************************************************************************)
EXTENDS Integers, Sequences, FiniteSets, TLC

VARIABLES
    globalWindowClass,  \* 0 until Init_Window has run, then the class object
    singletonMethods,   \* names registered with rb_define_singleton_method
    instanceMethods,    \* names registered with rb_define_method
    wins,               \* native heap: window id -> [st, deletes]
    objs,               \* Ruby Data objects, in creation order
    evQueue,            \* window id -> pending native events
    posted,             \* window id -> every event the OS ever queued
    polled,             \* window id -> every event handed to the script
    tempBufs,           \* pixel buffers allocated by new[] and not yet delete[]d
    crashed,            \* the process died on an invalid memory access
    lastCall            \* the last binding call: what it got, returned and did

vars == <<globalWindowClass, singletonMethods, instanceMethods, wins, objs,
          evQueue, posted, polled, tempBufs, crashed, lastCall>>

(***************************************************************************)
(* Bounds                                                                  *)
(***************************************************************************)
MaxArgc == 5
MaxWindows == 2
MaxObjs == 3
MaxEvents == 2
MaxLeaks == 2

(***************************************************************************)
(* VALUE words.  Fixnum n is the odd word 2n+1, false/true/nil are the     *)
(* words 0/2/4, every other value is the (aligned) address of its object.  *)
(***************************************************************************)
Qfalse == 0
Qtrue == 2
Qnil == 4

INT2FIX(n) == 2 * n + 1

FIXNUM_P(v) == v % 2 = 1

\* FIX2UINT shifts the tag bit out.  Every word of the model is below 2^31, so
\* the conversion to unsigned int that follows the shift changes nothing.
FIX2UINT(v) == v \div 2

\* Where the script's objects live; object k is at HeapBase + k * SlotSize.
HeapBase == 4096
SlotSize == 20
Addr(k) == HeapBase + k * SlotSize

aVideoMode == Addr(1)
aString == Addr(2)
aSettings == Addr(3)
aSubString == Addr(4)
aFloat == Addr(5)
aPixels4 == Addr(6)
aPixelsNested == Addr(7)
aPixelsShort == Addr(8)
aPixels8 == Addr(9)
aRow1 == Addr(10)
aRow2 == Addr(11)
aWindowClass == Addr(12)

\* The objects the script passes in: class, and payload (the wrapped struct of
\* a Data object, the characters of a String, the number of a Float, the
\* elements of an Array).
ScriptHeap ==
    [a \in {Addr(k) : k \in 1..11} |->
        CASE a = aVideoMode    -> [klass |-> "VideoMode", num |-> 800, text |-> "", elems |-> <<>>]
          [] a = aString       -> [klass |-> "String", num |-> 0, text |-> "SFML window", elems |-> <<>>]
          [] a = aSettings     -> [klass |-> "ContextSettings", num |-> 24, text |-> "", elems |-> <<>>]
          [] a = aSubString    -> [klass |-> "MyString", num |-> 0, text |-> "subclass", elems |-> <<>>]
          [] a = aFloat        -> [klass |-> "Float", num |-> 50, text |-> "", elems |-> <<>>]
          [] a = aPixels4      -> [klass |-> "Array", num |-> 0, text |-> "",
                                   elems |-> <<INT2FIX(1), INT2FIX(2), INT2FIX(3), INT2FIX(255)>>]
          [] a = aPixelsNested -> [klass |-> "Array", num |-> 0, text |-> "",
                                   elems |-> <<aRow1, aRow2>>]
          [] a = aPixelsShort  -> [klass |-> "Array", num |-> 0, text |-> "",
                                   elems |-> <<INT2FIX(1), INT2FIX(2), INT2FIX(3)>>]
          [] a = aPixels8      -> [klass |-> "Array", num |-> 0, text |-> "",
                                   elems |-> <<INT2FIX(0), INT2FIX(64), INT2FIX(128), INT2FIX(255),
                                               INT2FIX(1), INT2FIX(2), INT2FIX(3), INT2FIX(4)>>]
          [] a = aRow1         -> [klass |-> "Array", num |-> 0, text |-> "",
                                   elems |-> <<INT2FIX(9), INT2FIX(8), INT2FIX(7), INT2FIX(6)>>]
          [] OTHER             -> [klass |-> "Array", num |-> 0, text |-> "",
                                   elems |-> <<INT2FIX(5), INT2FIX(4), INT2FIX(3), INT2FIX(2)>>]]

IsObject(v) == v \in DOMAIN ScriptHeap

\* CLASS_OF: the class of an immediate is fixed by its tag, the class of any
\* other value is stored in its object.
CLASS_OF(v) ==
    IF FIXNUM_P(v) THEN "Fixnum"
    ELSE IF v = Qnil THEN "NilClass"
    ELSE IF v = Qfalse THEN "FalseClass"
    ELSE IF v = Qtrue THEN "TrueClass"
    ELSE IF IsObject(v) THEN ScriptHeap[v].klass
    ELSE "Object"

\* STR2CSTR of a String: its characters.
STR2CSTR(v) == IF IsObject(v) THEN ScriptHeap[v].text ELSE ""

\* Data_Get_Struct of a script object: the struct it wraps.
DataPtr(v) == IF IsObject(v) THEN ScriptHeap[v].num ELSE 0

(***************************************************************************)
(* Records of one binding call                                             *)
(***************************************************************************)
NoEvent == [Type |-> -1, data |-> 0]

NativeCall(op, win, nums, text, flags, bytes) ==
    [op |-> op, win |-> win, nums |-> nums, text |-> text, flags |-> flags, bytes |-> bytes]

\* What a binding function did: result is "nil", "true", "false", "object"
\* (obj is then the Data object returned, event the Event's contents),
\* "raise" (exc is then the exception class) or "crash".
Outcome(result, exc, native, deref) ==
    [result |-> result, exc |-> exc, native |-> native, deref |-> deref]

Call(fn, self, args, out, obj, event) ==
    [fn |-> fn, self |-> self, args |-> args, result |-> out.result, exc |-> out.exc,
     native |-> out.native, deref |-> out.deref, obj |-> obj, event |-> event]

NoCall == Call("", 0, <<>>, Outcome("none", "", <<>>, {}), 0, NoEvent)

(***************************************************************************)
(* Init_Window and method dispatch                                         *)
(***************************************************************************)
\* The methods the class documentation's usage example calls on a window.
DocumentedMethods ==
    {"setFramerateLimit", "open?", "getEvent", "close", "setActive", "display"}

Init_Window ==
    /\ globalWindowClass = 0
    /\ ~crashed
    /\ globalWindowClass' = aWindowClass
    /\ singletonMethods' = singletonMethods \cup {"new"}
    /\ instanceMethods' = instanceMethods
    /\ lastCall' = Call("Init_Window", 0, <<>>, Outcome("nil", "", <<>>, {}), 0, NoEvent)
    /\ UNCHANGED <<wins, objs, evQueue, posted, polled, tempBufs, crashed>>

(***************************************************************************)
(* Data objects and receivers                                              *)
(***************************************************************************)
\* Data_Wrap_Struct( klass, 0, dfree, data )
Data_Wrap_Struct(klass, dfree, data, part) ==
    [klass |-> klass, dfree |-> dfree, data |-> data, part |-> part, gc |-> "rooted"]

\* The receivers a script can call an instance method on: a Window object it
\* still holds, or (0) an instance that wraps no struct, as Window.allocate
\* makes.
Receivers ==
    {0} \cup {i \in 1..Len(objs) : objs[i].klass = "Window" /\ objs[i].gc = "rooted"}

\* Data_Get_Struct( self, sf::Window, object ): the window id, or 0 when self
\* is no Data object (Check_Type then raises TypeError).
SelfWindow(self) == IF self = 0 THEN 0 ELSE objs[self].data

NotData == Outcome("raise", "TypeError", <<>>, {})

LiveIds == {w \in 1..MaxWindows : wins[w].st = "live"}
FreeIds == {w \in 1..MaxWindows : wins[w].st = "free"}

(***************************************************************************)
(* Window.new and Window#create                                            *)
(***************************************************************************)
\* The class VALIDATE_CLASS asks of each argument position.
ExpectedClass == <<"VideoMode", "String", "Fixnum", "ContextSettings">>

ValidateSkipsFixnum(variable, type) == type # "Fixnum" /\ CLASS_OF(variable) # type

\* VALIDATE_CLASS( variable, type, name ): TRUE when it raises TypeError.
VALIDATE_CLASS(variable, type) == CLASS_OF(variable) # type

\* The first argument position (1-based) whose VALIDATE_CLASS raises, 0 if none.
FirstBad(args) ==
    LET bad == {i \in 1..Len(args) : VALIDATE_CLASS(args[i], ExpectedClass[i])}
    IN  IF bad = {} THEN 0 ELSE CHOOSE i \in bad : \A j \in bad : i <= j

\* The native constructor or Create call of a 2, 3 or 4 argument case:
\* ( *mode, STR2CSTR( args[1] ) [, FIX2UINT( args[2] ) [, *settings ]] ).
CtorCall(op, w, args) ==
    NativeCall(op, w,
               <<DataPtr(args[1])>>
                   \o (IF Len(args) >= 3 THEN <<FIX2UINT(args[3])>> ELSE <<>>)
                   \o (IF Len(args) >= 4 THEN <<DataPtr(args[4])>> ELSE <<>>),
               STR2CSTR(args[2]), <<>>, <<>>)

\* case 2, case 3, case 4: validate every argument in order, then call.
\* deref holds the (0-based) indexes of args that were read.
CheckedCase(op, w, args, result) ==
    IF FirstBad(args) # 0
    THEN Outcome("raise", "TypeError", <<>>, 0..(FirstBad(args) - 1))
    ELSE Outcome(result, "", <<CtorCall(op, w, args)>>, 0..(Len(args) - 1))

\* default: rb_raise( rb_eArgError, ... ) leaves the function.
ArityError(argc) == Outcome("raise", "ArgumentError", <<>>, {})

\* What the build can do with case 0 of Window_New, which reads through the
\* NULL mode pointer and reads args[1] of an empty argument vector.
UBOutcomes == {"crash", "garbage"}

\* Only case 0 has undefined behaviour: every other call has one outcome.
UBFor(args) == IF Len(args) = 0 THEN UBOutcomes ELSE {"defined"}

\* case 0 of Window_New: new sf::Window( *mode, STR2CSTR( args[1] ) ).
NewCase0(w, ub) ==
    IF ub = "crash"
    THEN Outcome("crash", "", <<>>, {1})
    ELSE Outcome("object", "", <<NativeCall("new sf::Window", w, <<0>>, "", <<>>, <<>>)>>, {1})

Window_New(args, w, ub) ==
    IF Len(args) = 0 THEN NewCase0(w, ub)
    ELSE IF Len(args) \in 2..4 THEN CheckedCase("new sf::Window", w, args, "object")
    ELSE ArityError(Len(args))

Window_Create(self, args) ==
    IF SelfWindow(self) = 0 THEN NotData
    ELSE IF Len(args) \in 2..4 THEN CheckedCase("Create", SelfWindow(self), args, "nil")
    ELSE ArityError(Len(args))

Allocates(out) == \E i \in 1..Len(out.native) : out.native[i].op = "new sf::Window"

\* What the initialize method of the wrapper's class may do.
InitOutcomes == {"returns", "raises"}

\* rb_obj_call_init( rbData, 0, 0 ) after a wrapper was made: the call of
\* initialize returns, or raises and the function never returns rbData.
rb_obj_call_init(out, init) ==
    IF out.result = "object" /\ init = "raises"
    THEN Outcome("raise", "StandardError", out.native, out.deref)
    ELSE out

\* Window.new: the switch, then Data_Wrap_Struct( aKlass, 0, Window_Free, object )
\* of whatever object holds (NULL, word 0, if no case assigned it), then
\* rb_obj_call_init.  A wrapper whose initialize raised is referenced by nobody.
Window_NewAct(args, ub, init) ==
    /\ globalWindowClass # 0
    /\ ~crashed
    /\ LET w == IF FreeIds = {} THEN 0 ELSE CHOOSE x \in FreeIds : \A y \in FreeIds : x <= y
           out == Window_New(args, w, ub)
           wraps == out.result = "object"
           final == rb_obj_call_init(out, init)
       IN  /\ Allocates(out) => w # 0
           /\ wraps => Len(objs) < MaxObjs
           /\ wins' = IF Allocates(out)
                      THEN [wins EXCEPT ![w] = [st |-> "live", deletes |-> 0]]
                      ELSE wins
           /\ objs' = IF wraps
                      THEN Append(objs,
                                  [Data_Wrap_Struct("Window", "Window_Free",
                                                    IF Allocates(out) THEN w ELSE 0, "window")
                                      EXCEPT !.gc = IF final.result = "object"
                                                    THEN "rooted" ELSE "garbage"])
                      ELSE objs
           /\ crashed' = (out.result = "crash")
           /\ lastCall' = Call("Window_New", 0, args, final,
                               IF final.result = "object" THEN Len(objs) + 1 ELSE 0, NoEvent)
    /\ UNCHANGED <<globalWindowClass, singletonMethods, instanceMethods,
                   evQueue, posted, polled, tempBufs>>

\* Window#create: re-creates the receiver's window in place.
Window_CreateAct(self, args) ==
    /\ globalWindowClass # 0
    /\ ~crashed
    /\ self \in Receivers
    /\ lastCall' = Call("Window_Create", self, args, Window_Create(self, args), 0, NoEvent)
    /\ UNCHANGED <<globalWindowClass, singletonMethods, instanceMethods, wins, objs,
                   evQueue, posted, polled, tempBufs, crashed>>

\* A script sends a message to a window: Ruby looks the name up in the
\* methods Init_Window registered.
CallMethod(self, name) ==
    /\ globalWindowClass # 0
    /\ ~crashed
    /\ self \in Receivers
    /\ lastCall' = Call(name, self, <<>>,
                        IF name \in instanceMethods
                        THEN Outcome("dispatched", "", <<>>, {})
                        ELSE Outcome("raise", "NoMethodError", <<>>, {}),
                        0, NoEvent)
    /\ UNCHANGED <<globalWindowClass, singletonMethods, instanceMethods, wins, objs,
                   evQueue, posted, polled, tempBufs, crashed>>

(***************************************************************************)
(* Specification of construction: Init_Window, new, create, dispatch       *)
(***************************************************************************)
Init ==
    /\ globalWindowClass = 0
    /\ singletonMethods = {}
    /\ instanceMethods = {}
    /\ wins = [w \in 1..MaxWindows |-> [st |-> "free", deletes |-> 0]]
    /\ objs = <<>>
    /\ evQueue = [w \in 1..MaxWindows |-> <<>>]
    /\ posted = [w \in 1..MaxWindows |-> <<>>]
    /\ polled = [w \in 1..MaxWindows |-> <<>>]
    /\ tempBufs = 0
    /\ crashed = FALSE
    /\ lastCall = NoCall

\* The values a script passes to new and create at each position: one of
\* the class the position expects and one of another class (a subclass of
\* String in the second position, nil in the third).
CtorValues(i) ==
    CASE i = 1 -> {aVideoMode, aSettings}
      [] i = 2 -> {aString, aSubString}
      [] i = 3 -> {INT2FIX(7), Qnil}
      [] i = 4 -> {aSettings, aVideoMode}
      [] OTHER -> {aString}

ArgLists ==
    UNION {{a \in [1..n -> UNION {CtorValues(i) : i \in 1..n}] :
               \A i \in 1..n : a[i] \in CtorValues(i)} : n \in 0..MaxArgc}

Next ==
    \/ Init_Window
    \/ \E args \in ArgLists, init \in InitOutcomes : \E ub \in UBFor(args) :
           Window_NewAct(args, ub, init)
    \/ \E self \in Receivers, args \in ArgLists : Window_CreateAct(self, args)
    \/ \E self \in Receivers, name \in DocumentedMethods :
           CallMethod(self, name)

Spec == Init /\ [][Next]_vars

\* C1: new and create called with a number of arguments other than 2, 3 or 4
\* (on a receiver that wraps a window) raise ArgumentError, make no native
\* call, read no argument and return no wrapper.
C1_WrongArityRaises ==
    (/\ lastCall.fn \in {"Window_New", "Window_Create"}
     /\ Len(lastCall.args) \notin 2..4
     /\ (lastCall.fn = "Window_Create" => lastCall.self # 0))
    => (/\ lastCall.result = "raise"
        /\ lastCall.exc = "ArgumentError"
        /\ lastCall.native = <<>>
        /\ lastCall.deref = {}
        /\ lastCall.obj = 0)

\* C2: new and create with 2, 3 or 4 arguments raise TypeError without any
\* native call when some argument is not of exactly its position's class, and
\* make their native call only when every argument is.
C2_TypeCheckedBeforeNative ==
    (lastCall.fn \in {"Window_New", "Window_Create"} /\ Len(lastCall.args) \in 2..4)
    => LET illTyped == \E i \in 1..Len(lastCall.args) :
                           CLASS_OF(lastCall.args[i]) # ExpectedClass[i]
       IN  /\ illTyped => (/\ lastCall.result = "raise"
                           /\ lastCall.exc = "TypeError"
                           /\ lastCall.native = <<>>
                           /\ lastCall.obj = 0)
           /\ lastCall.native # <<>> => ~illTyped
           /\ (~illTyped /\ (lastCall.fn = "Window_New" \/ lastCall.self # 0))
                  => Len(lastCall.native) = 1

\* A create with four arguments whose last one is of the wrong class.
C2_Witness ==
    /\ lastCall.fn = "Window_Create"
    /\ lastCall.self # 0
    /\ Len(lastCall.args) = 4
    /\ CLASS_OF(lastCall.args[4]) # "ContextSettings"
    /\ \A i \in 1..3 : CLASS_OF(lastCall.args[i]) = ExpectedClass[i]
    /\ lastCall.exc = "TypeError"

\* C3: once Init_Window has run, every method of the documented usage example
\* is registered as an instance method of SFML::Window.
C3_DocumentedMethodsRegistered ==
    globalWindowClass # 0 => DocumentedMethods \subseteq instanceMethods

(***************************************************************************)
(* The forwarding functions                                                *)
(***************************************************************************)
Forward(op, self, nums, text, flags) ==
    IF SelfWindow(self) = 0 THEN NotData
    ELSE Outcome("nil", "", <<NativeCall(op, SelfWindow(self), nums, text, flags, <<>>)>>, {})

\* if( flag == Qfalse ) op( false ) else if( flag == Qtrue ) op( true )
\* else rb_raise( rb_eTypeError, "Expected true or false" )
BoolFlag(op, self, flag) ==
    IF SelfWindow(self) = 0 THEN NotData
    ELSE IF flag = Qfalse THEN Forward(op, self, <<>>, "", <<FALSE>>)
    ELSE IF flag = Qtrue THEN Forward(op, self, <<>>, "", <<TRUE>>)
    ELSE Outcome("raise", "TypeError", <<>>, {})

Window_EnableKeyRepeat(self, anEnableFlag) == BoolFlag("EnableKeyRepeat", self, anEnableFlag)

SetActiveByTruthiness(self, anActiveFlag) ==
    Forward("SetActive", self, <<>>, "", <<anActiveFlag \notin {Qfalse, Qnil}>>)

Window_SetActive(self, anActiveFlag) == BoolFlag("SetActive", self, anActiveFlag)

Window_Show(self, aShowFlag) == BoolFlag("Show", self, aShowFlag)

Window_SetCursorPosition(self, aX, aY) ==
    Forward("SetCursorPosition", self, <<FIX2UINT(aX), FIX2UINT(aY)>>, "", <<>>)

Window_SetFramerateLimit(self, aLimit) ==
    Forward("SetFramerateLimit", self, <<FIX2UINT(aLimit)>>, "", <<>>)

Window_SetPosition(self, aX, aY) ==
    Forward("SetPosition", self, <<FIX2UINT(aX), FIX2UINT(aY)>>, "", <<>>)

Window_SetSize(self, aWidth, aHeight) ==
    Forward("SetSize", self, <<FIX2UINT(aWidth), FIX2UINT(aHeight)>>, "", <<>>)

Window_SetTitle(self, aTitle) == Forward("SetTitle", self, <<>>, STR2CSTR(aTitle), <<>>)

\* rb_float_new( d ) makes a new Float object holding d and returns its
\* VALUE, the address of the slot the object was given.
rb_float_new(d, slot) == Addr(slot)

\* The slots the allocator may hand out next.
FreshSlots == {13, 14}

\* SetJoystickTreshold( rb_float_new( aTreshold ) ): the VALUE word of the
\* argument becomes the double of a new Float, and the VALUE of that Float
\* becomes the float the native function gets.
Window_SetJoystickTreshold(self, aTreshold, slot) ==
    Forward("SetJoystickTreshold", self, <<rb_float_new(aTreshold, slot)>>, "", <<>>)

\* A forwarding function ran: only the record of the call changes.
Forwarded(fn, self, args, out) ==
    /\ globalWindowClass # 0
    /\ ~crashed
    /\ self \in Receivers
    /\ lastCall' = Call(fn, self, args, out, 0, NoEvent)
    /\ UNCHANGED <<globalWindowClass, singletonMethods, instanceMethods, wins, objs,
                   evQueue, posted, polled, tempBufs, crashed>>

Window_EnableKeyRepeatAct(self, f) ==
    Forwarded("Window_EnableKeyRepeat", self, <<f>>, Window_EnableKeyRepeat(self, f))

Window_SetActiveAct(self, f) ==
    Forwarded("Window_SetActive", self, <<f>>, Window_SetActive(self, f))

Window_ShowAct(self, f) ==
    Forwarded("Window_Show", self, <<f>>, Window_Show(self, f))

Window_SetCursorPositionAct(self, x, y) ==
    Forwarded("Window_SetCursorPosition", self, <<x, y>>, Window_SetCursorPosition(self, x, y))

Window_SetFramerateLimitAct(self, n) ==
    Forwarded("Window_SetFramerateLimit", self, <<n>>, Window_SetFramerateLimit(self, n))

Window_SetPositionAct(self, x, y) ==
    Forwarded("Window_SetPosition", self, <<x, y>>, Window_SetPosition(self, x, y))

Window_SetSizeAct(self, x, y) ==
    Forwarded("Window_SetSize", self, <<x, y>>, Window_SetSize(self, x, y))

Window_SetTitleAct(self, t) ==
    Forwarded("Window_SetTitle", self, <<t>>, Window_SetTitle(self, t))

Window_SetJoystickTresholdAct(self, t, slot) ==
    Forwarded("Window_SetJoystickTreshold", self, <<t>>, Window_SetJoystickTreshold(self, t, slot))

\* The values a script passes as a flag, as a number, as a title and as a
\* joystick threshold.
FlagValues == {Qtrue, Qfalse, Qnil, INT2FIX(0), INT2FIX(1), aString, aVideoMode}
NumberValues == {INT2FIX(0), INT2FIX(60), INT2FIX(800)}
TitleValues == {aString, aSubString}
TresholdValues == {INT2FIX(0), INT2FIX(50), aFloat}

\* The window a script creates before it uses it: new( mode, title ), a call
\* that does not reach case 0 and whose initialize returns.
PlainNew == Window_NewAct(<<aVideoMode, aString>>, "defined", "returns")

ForwardNext ==
    \/ Init_Window
    \/ PlainNew
    \/ \E self \in Receivers, f \in FlagValues : Window_EnableKeyRepeatAct(self, f)
    \/ \E self \in Receivers, f \in FlagValues : Window_SetActiveAct(self, f)
    \/ \E self \in Receivers, f \in FlagValues : Window_ShowAct(self, f)
    \/ \E self \in Receivers, x, y \in NumberValues : Window_SetCursorPositionAct(self, x, y)
    \/ \E self \in Receivers, n \in NumberValues : Window_SetFramerateLimitAct(self, n)
    \/ \E self \in Receivers, x, y \in NumberValues : Window_SetPositionAct(self, x, y)
    \/ \E self \in Receivers, x, y \in NumberValues : Window_SetSizeAct(self, x, y)
    \/ \E self \in Receivers, t \in TitleValues : Window_SetTitleAct(self, t)
    \/ \E self \in Receivers, t \in TresholdValues, slot \in FreshSlots :
           Window_SetJoystickTresholdAct(self, t, slot)

SpecForward == Init /\ [][ForwardNext]_vars

\* The native operation each flag function forwards to.
FlagOp(fn) ==
    CASE fn = "Window_EnableKeyRepeat" -> "EnableKeyRepeat"
      [] fn = "Window_SetActive" -> "SetActive"
      [] OTHER -> "Show"

\* C4: EnableKeyRepeat, SetActive and Show, called on a window with exactly
\* true or false, call their native operation once with that boolean and
\* return nil; with any other value they raise TypeError and call nothing.
C4_FlagForwardedOrRejected ==
    (/\ lastCall.fn \in {"Window_EnableKeyRepeat", "Window_SetActive", "Window_Show"}
     /\ lastCall.self # 0)
    => IF lastCall.args[1] \in {Qtrue, Qfalse}
       THEN /\ lastCall.result = "nil"
            /\ Len(lastCall.native) = 1
            /\ lastCall.native[1].op = FlagOp(lastCall.fn)
            /\ lastCall.native[1].win = objs[lastCall.self].data
            /\ lastCall.native[1].flags = <<lastCall.args[1] = Qtrue>>
       ELSE /\ lastCall.result = "raise"
            /\ lastCall.exc = "TypeError"
            /\ lastCall.native = <<>>

\* SetActive was called with nil and raised.
C4_Witness ==
    /\ lastCall.fn = "Window_SetActive"
    /\ lastCall.self # 0
    /\ lastCall.args = <<Qnil>>
    /\ lastCall.exc = "TypeError"

\* The number a script value stands for: the Fixnum's integer, the Float's
\* number.
NumericValue(v) == IF FIXNUM_P(v) THEN (v - 1) \div 2 ELSE ScriptHeap[v].num

SetterOp(fn) ==
    CASE fn = "Window_SetCursorPosition" -> "SetCursorPosition"
      [] fn = "Window_SetFramerateLimit" -> "SetFramerateLimit"
      [] fn = "Window_SetPosition" -> "SetPosition"
      [] fn = "Window_SetSize" -> "SetSize"
      [] fn = "Window_SetTitle" -> "SetTitle"
      [] OTHER -> "SetJoystickTreshold"

\* C6: every setter, called on a window, makes exactly one call of the native
\* operation of its name, with the numbers (or the text) of its arguments in
\* their order; SetJoystickTreshold passes the number of its argument.
C6_SetterForwardsValues ==
    (/\ lastCall.fn \in {"Window_SetCursorPosition", "Window_SetFramerateLimit",
                         "Window_SetPosition", "Window_SetSize", "Window_SetTitle",
                         "Window_SetJoystickTreshold"}
     /\ lastCall.self # 0)
    => /\ Len(lastCall.native) = 1
       /\ lastCall.native[1].op = SetterOp(lastCall.fn)
       /\ IF lastCall.fn = "Window_SetTitle"
          THEN lastCall.native[1].text = ScriptHeap[lastCall.args[1]].text
          ELSE lastCall.native[1].nums =
                   [i \in 1..Len(lastCall.args) |-> NumericValue(lastCall.args[i])]

(***************************************************************************)
(* Window#getEvent                                                         *)
(***************************************************************************)
\* window->GetEvent( event ): pops the oldest pending event into event and
\* answers true, or answers false and leaves event as it was.
NativeGetEvent(q) ==
    IF q = <<>>
    THEN [ok |-> FALSE, event |-> NoEvent, rest |-> q]
    ELSE [ok |-> TRUE, event |-> Head(q), rest |-> Tail(q)]

\* SFML::Event.new( type ): an Event of that type with no data yet.
EventNew(type) == [Type |-> FIX2UINT(type), data |-> 0]

StoreNothing(rubyRawEvent, event) == rubyRawEvent

\* *rubyRawEvent = event
StoreEvent(rubyRawEvent, event) == event

\* The native call of Window_GetEvent, with what GetEvent answered (flags)
\* and what it put into event (nums).
GetEventCall(w, got) ==
    NativeCall("GetEvent", w, <<got.event.Type, got.event.data>>, "", <<got.ok>>, <<>>)

Window_GetEvent(self, q) ==
    IF SelfWindow(self) = 0
    THEN [out |-> NotData, event |-> NoEvent, rest |-> q]
    ELSE LET got == NativeGetEvent(q)
         IN  IF got.ok
             THEN [out |-> Outcome("object", "", <<GetEventCall(SelfWindow(self), got)>>, {}),
                   event |-> StoreEvent(EventNew(INT2FIX(got.event.Type)), got.event),
                   rest |-> got.rest]
             ELSE [out |-> Outcome("nil", "", <<GetEventCall(SelfWindow(self), got)>>, {}),
                   event |-> NoEvent,
                   rest |-> got.rest]

Window_GetEventAct(self) ==
    /\ globalWindowClass # 0
    /\ ~crashed
    /\ self \in Receivers
    /\ LET w == SelfWindow(self)
           r == Window_GetEvent(self, IF w = 0 THEN <<>> ELSE evQueue[w])
       IN  /\ evQueue' = IF w = 0 THEN evQueue ELSE [evQueue EXCEPT ![w] = r.rest]
           /\ polled' = IF r.out.result = "object"
                        THEN [polled EXCEPT ![w] = Append(@, r.event)]
                        ELSE polled
           /\ lastCall' = Call("Window_GetEvent", self, <<>>, r.out, 0, r.event)
    /\ UNCHANGED <<globalWindowClass, singletonMethods, instanceMethods, wins, objs,
                   posted, tempBufs, crashed>>

\* The events the window system delivers.
Events == {[Type |-> 0, data |-> 0], [Type |-> 5, data |-> 65]}

RECURSIVE TotalLen(_, _)
TotalLen(f, n) == IF n = 0 THEN 0 ELSE Len(f[n]) + TotalLen(f, n - 1)

\* The window system queues an event for a window.
PostEvent(w, e) ==
    /\ ~crashed
    /\ w \in LiveIds
    /\ TotalLen(posted, MaxWindows) < MaxEvents
    /\ evQueue' = [evQueue EXCEPT ![w] = Append(@, e)]
    /\ posted' = [posted EXCEPT ![w] = Append(@, e)]
    /\ UNCHANGED <<globalWindowClass, singletonMethods, instanceMethods, wins, objs,
                   polled, tempBufs, crashed, lastCall>>

EventNext ==
    \/ Init_Window
    \/ PlainNew
    \/ \E w \in 1..MaxWindows, e \in Events : PostEvent(w, e)
    \/ \E self \in Receivers : Window_GetEventAct(self)

SpecEvent == Init /\ [][EventNext]_vars

\* What one getEvent call on a window shows of itself.
C7_Call ==
    /\ \A w \in 1..MaxWindows : polled[w] \o evQueue[w] = posted[w]
    /\ (lastCall.fn = "Window_GetEvent" /\ lastCall.self # 0)
       => /\ Len(lastCall.native) = 1
          /\ lastCall.native[1].op = "GetEvent"
          /\ lastCall.native[1].win = objs[lastCall.self].data
          /\ (lastCall.result = "nil") <=> (lastCall.native[1].flags = <<FALSE>>)
          /\ lastCall.result # "nil"
                 => /\ lastCall.result = "object"
                    /\ lastCall.event = [Type |-> lastCall.native[1].nums[1],
                                         data |-> lastCall.native[1].nums[2]]

\* What one getEvent call on a window does to the queue.
C7_Step ==
    (lastCall'.fn = "Window_GetEvent" /\ lastCall'.self # 0 /\ posted' = posted)
    => LET w == objs[lastCall'.self].data
       IN  IF evQueue[w] = <<>>
           THEN /\ lastCall'.result = "nil"
                /\ evQueue' = evQueue
                /\ polled' = polled
           ELSE /\ lastCall'.result = "object"
                /\ lastCall'.event = Head(evQueue[w])
                /\ evQueue' = [evQueue EXCEPT ![w] = Tail(@)]
                /\ polled' = [polled EXCEPT ![w] = Append(@, Head(evQueue[w]))]

\* C7: getEvent on a window polls the native queue exactly once, returns nil
\* exactly when the native GetEvent reported no event, and otherwise returns
\* an Event equal to the polled one; each call takes the oldest pending event
\* off the queue, or returns nil when none is pending, so the events handed to
\* the script, followed by those still pending, are the events that were
\* queued, in their order, each once, and a loop over a finite queue ends.
C7_EventsPolledInOrder == []C7_Call /\ [][C7_Step]_vars

\* Two different events were queued for one window, both were handed out and
\* the call after them returned nil.
C7_Witness ==
    /\ lastCall.fn = "Window_GetEvent"
    /\ lastCall.self # 0
    /\ lastCall.result = "nil"
    /\ Len(polled[objs[lastCall.self].data]) = 2
    /\ polled[objs[lastCall.self].data][1] # polled[objs[lastCall.self].data][2]

(***************************************************************************)
(* Window#setIcon                                                          *)
(***************************************************************************)
\* Numbers too wide for a 32-bit signed integer are little-endian strings of
\* bytes.  An unsigned int has UIntBytes of them.
UIntBytes == 4
ByteBase == 256

\* The k low bytes of n.
RECURSIVE ToBytes(_, _)
ToBytes(n, k) == IF k = 0 THEN <<>> ELSE <<n % ByteBase>> \o ToBytes(n \div ByteBase, k - 1)

RECURSIVE FromBytes(_)
FromBytes(b) == IF b = <<>> THEN 0 ELSE b[1] + ByteBase * FromBytes(Tail(b))

Digit(a, i) == IF i \in 1..Len(a) THEN a[i] ELSE 0

RECURSIVE ColSum(_, _, _, _)
ColSum(a, b, c, i) ==
    IF i > Len(a) THEN 0 ELSE a[i] * Digit(b, c + 1 - i) + ColSum(a, b, c, i + 1)

RECURSIVE Carry(_, _, _, _)
Carry(a, b, c, carry) ==
    IF c > Len(a) + Len(b) THEN <<>>
    ELSE LET t == ColSum(a, b, c, 1) + carry
         IN  <<t % ByteBase>> \o Carry(a, b, c + 1, t \div ByteBase)

\* The full product of two byte strings, Len(a) + Len(b) bytes long.
MulBytes(a, b) == Carry(a, b, 1, 0)

\* unsigned int * unsigned int: the low UIntBytes bytes of the product.
UIntMul(a, b) == SubSeq(MulBytes(a, b), 1, UIntBytes)

\* const unsigned long dataSize = rawWidth * rawHeight * 4, the product
\* taken in unsigned int and then widened.
DataSize(rawWidth, rawHeight) ==
    LET area == UIntMul(ToBytes(rawWidth, UIntBytes), ToBytes(rawHeight, UIntBytes))
    IN  UIntMul(area, ToBytes(4, UIntBytes))

\* somePixels.flatten: the elements, with nested arrays spliced in.
RECURSIVE FlattenFrom(_, _)
FlattenFrom(elems, i) ==
    IF i > Len(elems) THEN <<>>
    ELSE (IF CLASS_OF(elems[i]) = "Array"
          THEN FlattenFrom(ScriptHeap[elems[i]].elems, 1)
          ELSE <<elems[i]>>) \o FlattenFrom(elems, i + 1)

Flatten(v) == FlattenFrom(ScriptHeap[v].elems, 1)

\* rb_ary_entry( pixels, index ): nil past the end.
rb_ary_entry(pixels, index) == IF index < Len(pixels) THEN pixels[index + 1] ELSE Qnil

\* NUM2CHR of an entry: the low byte of a Fixnum; nil (and every other value
\* of the model that is no number) raises TypeError.
NUM2CHR_Raises(v) == ~FIXNUM_P(v)
NUM2CHR(v) == FIX2UINT(v) % ByteBase

\* The index at which the copy loop raises, -1 if it runs to dataSize.
LoopRaisesAt(pixels, dataSize) ==
    LET last == IF dataSize <= Len(pixels) THEN dataSize - 1 ELSE Len(pixels)
        bad == {i \in 0..last : NUM2CHR_Raises(rb_ary_entry(pixels, i))}
    IN  IF bad = {} THEN -1 ELSE CHOOSE i \in bad : \A j \in bad : i <= j

\* Window_SetIcon in the order of its statements: new[], flatten, the copy
\* loop, Data_Get_Struct, SetIcon, delete[].  freed tells whether delete[]
\* was reached.
Window_SetIcon(self, aWidth, aHeight, somePixels) ==
    LET rawWidth == FIX2UINT(aWidth)
        rawHeight == FIX2UINT(aHeight)
        dataSize == FromBytes(DataSize(rawWidth, rawHeight))
    IN  IF CLASS_OF(somePixels) # "Array"
        THEN [out |-> Outcome("raise", "NoMethodError", <<>>, {}), freed |-> FALSE]
        ELSE IF LoopRaisesAt(Flatten(somePixels), dataSize) # -1
        THEN [out |-> Outcome("raise", "TypeError", <<>>, {}), freed |-> FALSE]
        ELSE IF SelfWindow(self) = 0
        THEN [out |-> NotData, freed |-> FALSE]
        ELSE [out |-> Outcome("nil", "",
                              <<NativeCall("SetIcon", SelfWindow(self), <<rawWidth, rawHeight>>,
                                           "", <<>>,
                                           [i \in 1..dataSize |->
                                               NUM2CHR(rb_ary_entry(Flatten(somePixels), i - 1))])>>,
                              {}),
              freed |-> TRUE]

Window_SetIconAct(self, aWidth, aHeight, somePixels) ==
    /\ globalWindowClass # 0
    /\ ~crashed
    /\ self \in Receivers
    /\ tempBufs < MaxLeaks
    /\ LET r == Window_SetIcon(self, aWidth, aHeight, somePixels)
       IN  /\ tempBufs' = IF r.freed THEN tempBufs ELSE tempBufs + 1
           /\ lastCall' = Call("Window_SetIcon", self, <<aWidth, aHeight, somePixels>>,
                               r.out, 0, NoEvent)
    /\ UNCHANGED <<globalWindowClass, singletonMethods, instanceMethods, wins, objs,
                   evQueue, posted, polled, crashed>>

\* The icon sizes and pixel arguments a script passes.
IconWidths == {INT2FIX(1), INT2FIX(2), INT2FIX(65536)}
IconHeights == {INT2FIX(1), INT2FIX(16384)}
IconPixels == {aPixels4, aPixels8, aPixelsNested, aPixelsShort, Qnil}

IconNext ==
    \/ Init_Window
    \/ PlainNew
    \/ \E self \in Receivers, x \in IconWidths, y \in IconHeights, p \in IconPixels :
           Window_SetIconAct(self, x, y, p)

SpecIcon == Init /\ [][IconNext]_vars

\* C8: no pixel buffer of setIcon stays allocated once a call has ended,
\* whether it returned or raised.
C8_NoBufferLeft == tempBufs = 0

\* C9: the buffer setIcon hands to the native SetIcon holds exactly
\* width * height * 4 bytes, the product of the integers with no wrap-around,
\* and byte i is entry i of the flattened pixels.
C9_BufferCoversIcon ==
    (lastCall.fn = "Window_SetIcon" /\ lastCall.native # <<>>)
    => LET call == lastCall.native[1]
           need == MulBytes(MulBytes(ToBytes(call.nums[1], UIntBytes),
                                     ToBytes(call.nums[2], UIntBytes)),
                            ToBytes(4, UIntBytes))
       IN  /\ ToBytes(Len(call.bytes), Len(need)) = need
           /\ \A i \in 1..Len(call.bytes) :
                  call.bytes[i] = NumericValue(Flatten(lastCall.args[3])[i])

(***************************************************************************)
(* Lifetime: wrappers, Window#getInput, Window#getSettings, collection     *)
(***************************************************************************)
WindowFreeKeeps(anObject, heap) == heap

\* Window_Free( anObject ): delete anObject (delete of NULL does nothing).
Window_Free(anObject, heap) ==
    IF anObject = 0 THEN heap
    ELSE [heap EXCEPT ![anObject] = [st |-> "deleted", deletes |-> @.deletes + 1]]

\* Data_Wrap_Struct( globalInputClass, 0, 0, &object->GetInput() ): a wrapper
\* with no mark and no free function around a part of the window.
Window_GetInput(self) ==
    IF SelfWindow(self) = 0 THEN NotData
    ELSE Outcome("object", "", <<NativeCall("GetInput", SelfWindow(self), <<>>, "", <<>>, <<>>)>>, {})

Window_GetSettings(self) ==
    IF SelfWindow(self) = 0 THEN NotData
    ELSE Outcome("object", "", <<NativeCall("GetSettings", SelfWindow(self), <<>>, "", <<>>, <<>>)>>, {})

\* A getter that wraps a part of the receiver's window ran: Data_Wrap_Struct,
\* then rb_obj_call_init.
WrapPart(fn, self, klass, part, out, init) ==
    /\ globalWindowClass # 0
    /\ ~crashed
    /\ self \in Receivers
    /\ Len(objs) < MaxObjs
    /\ LET final == rb_obj_call_init(out, init)
       IN  /\ objs' = IF out.result = "object"
                      THEN Append(objs,
                                  [Data_Wrap_Struct(klass, "none", SelfWindow(self), part)
                                      EXCEPT !.gc = IF final.result = "object"
                                                    THEN "rooted" ELSE "garbage"])
                      ELSE objs
           /\ lastCall' = Call(fn, self, <<>>, final,
                               IF final.result = "object" THEN Len(objs) + 1 ELSE 0, NoEvent)
    /\ UNCHANGED <<globalWindowClass, singletonMethods, instanceMethods, wins,
                   evQueue, posted, polled, tempBufs, crashed>>

Window_GetInputAct(self, init) ==
    WrapPart("Window_GetInput", self, "Input", "input", Window_GetInput(self), init)

Window_GetSettingsAct(self, init) ==
    WrapPart("Window_GetSettings", self, "ContextSettings", "settings",
             Window_GetSettings(self), init)

\* The script lets go of its last reference to a Data object.  No wrapper
\* refers to another one, so nothing else keeps the object alive.
Drop(i) ==
    /\ ~crashed
    /\ i \in 1..Len(objs)
    /\ objs[i].gc = "rooted"
    /\ objs' = [objs EXCEPT ![i].gc = "garbage"]
    /\ UNCHANGED <<globalWindowClass, singletonMethods, instanceMethods, wins,
                   evQueue, posted, polled, tempBufs, crashed, lastCall>>

\* The collector sweeps an unreferenced Data object and calls the free
\* function Data_Wrap_Struct registered for it, if any.
Sweep(i) ==
    /\ ~crashed
    /\ i \in 1..Len(objs)
    /\ objs[i].gc = "garbage"
    /\ objs' = [objs EXCEPT ![i].gc = "swept"]
    /\ wins' = IF objs[i].dfree = "Window_Free" THEN Window_Free(objs[i].data, wins) ELSE wins
    /\ UNCHANGED <<globalWindowClass, singletonMethods, instanceMethods,
                   evQueue, posted, polled, tempBufs, crashed, lastCall>>

\* One argument list for every path through Window_New: each case of the
\* switch, with each of its checks failing and with all of them passing.
PathArgs ==
    {<<>>,
     <<aVideoMode>>,
     <<aVideoMode, aString>>,
     <<aSettings, aString>>,
     <<aVideoMode, aSubString>>,
     <<aVideoMode, aString, INT2FIX(7)>>,
     <<aVideoMode, aString, Qnil>>,
     <<aVideoMode, aString, INT2FIX(7), aSettings>>,
     <<aVideoMode, aString, INT2FIX(7), aVideoMode>>,
     <<aVideoMode, aString, INT2FIX(7), aSettings, aString>>}

\* The initialize methods of Input and ContextSettings are taken to return.
LifeNext ==
    \/ Init_Window
    \/ \E args \in PathArgs, init \in InitOutcomes : \E ub \in UBFor(args) :
           Window_NewAct(args, ub, init)
    \/ \E self \in Receivers : Window_GetInputAct(self, "returns")
    \/ \E self \in Receivers : Window_GetSettingsAct(self, "returns")
    \/ \E i \in 1..MaxObjs : Drop(i)
    \/ \E i \in 1..MaxObjs : Sweep(i)

SpecLife == Init /\ [][LifeNext]_vars

\* The wrappers that own window w: made with Window_Free as free function.
Owners(w) == {i \in 1..Len(objs) : objs[i].dfree = "Window_Free" /\ objs[i].data = w}

C10_PartWrappersStayValid ==
    \A i \in 1..Len(objs) :
        objs[i].klass \in {"Input", "ContextSettings"}
        => /\ objs[i].dfree = "none"
           /\ objs[i].gc = "rooted" => wins[objs[i].data].st = "live"
====
